---- MODULE Spec2Model ----
(***************************************************************************)
(* A model of core/src/main/c/share/net.c, the native socket layer of      *)
(* QuestDB: socket creation, address descriptors, send/recv/peek, the      *)
(* liveness probe, the option calls and the peer queries.  Every JNI entry *)
(* point is one action; the operating system underneath it (descriptor     *)
(* table, socket queues, the allocator) is the environment and is modelled *)
(* by the os_* operators at the place where the entry point calls it.      *)
(***************************************************************************)
EXTENDS Integers, Sequences, FiniteSets, TLC

VARIABLES
    socks,      \* the process's descriptor table: fd -> socket record
    owned,      \* the handles the caller has been given and has not closed
    heap,       \* the allocator: address -> a free block or a sockaddr_in
    live,       \* addresses of the address objects the caller holds as live
    stale,      \* addresses the caller has freed and still holds a handle to
    ub,         \* the undefined behaviour the process has run into, if any
    last        \* the last call: its operation, arguments and return value

vars == <<socks, owned, heap, live, stale, ub, last>>

----------------------------------------------------------------------------
(* Bounds of the model.                                                    *)

MaxFd == 4          \* descriptors are 0..MaxFd
MaxAddr == 3        \* heap addresses are 1..MaxAddr; 0 is NULL
MaxLen == 2         \* longest payload / largest len argument
MaxByte == 1        \* payload bytes are 0..MaxByte
BufCap == 1         \* bytes a socket's receive queue holds

(* Sentinels of net.h (not among the sources): "a fixed negative value     *)
(* distinct from Disconnected" and "a fixed negative value distinct from   *)
(* Retry".                                                                 *)
ERETRY == -1
EOTHERDISCONNECT == -2

AF_INET == 2

Fds == 0..MaxFd
Bytes == 0..MaxByte
Lens == 0..MaxLen

Min(a, b) == IF a < b THEN a ELSE b

RECURSIVE SeqsUpTo(_)
SeqsUpTo(n) ==
    IF n = 0 THEN {<<>>}
    ELSE LET shorter == SeqsUpTo(n - 1)
         IN  shorter \cup {Append(s, b) : s \in {t \in shorter : Len(t) = n - 1}, b \in Bytes}

Payloads == SeqsUpTo(MaxLen)

----------------------------------------------------------------------------
(* The descriptor table.                                                   *)

(* A heap block that holds no address; also the peer name of a socket that *)
(* has no peer.                                                            *)
FreeBlock == [used |-> FALSE, sin_family |-> 0, sin_addr |-> <<>>, sin_port |-> <<>>]

NoSock ==
    [kind |-> "none", nonblock |-> FALSE, reuse |-> FALSE, st |-> "none",
     peer |-> -1, rx |-> <<>>, wrshut |-> FALSE, rdshut |-> FALSE, err |-> "",
     pn |-> FreeBlock, backlog |-> 0, sndbuf |-> 0, rcvbuf |-> 0, nodelay |-> 0]

StdFile == [NoSock EXCEPT !.kind = "file", !.st = "open"]

NewSock(kind) == [NoSock EXCEPT !.kind = kind, !.st = "created"]

IsOpen(tab, fd) == fd \in Fds /\ tab[fd].kind # "none"

IsSocket(tab, fd) == fd \in Fds /\ tab[fd].kind \in {"tcp", "udp"}

FreeFds(tab) == {f \in Fds : tab[f].kind = "none"}

(* socket(2): the lowest free descriptor, or -1 when the call fails or the *)
(* table is full.                                                          *)
os_socket(tab, ok) ==
    IF ok /\ FreeFds(tab) # {}
    THEN CHOOSE f \in FreeFds(tab) : \A g \in FreeFds(tab) : f <= g
    ELSE -1

os_open(tab, fd, kind) == [tab EXCEPT ![fd] = NewSock(kind)]

os_close(tab, fd) == [tab EXCEPT ![fd] = NoSock]

(* fcntl(fd, F_SETFL, O_NONBLOCK) and setsockopt(SO_REUSEADDR), when they  *)
(* succeed.                                                                *)
os_set_nonblock(tab, fd) == [tab EXCEPT ![fd].nonblock = TRUE]

os_set_reuse(tab, fd) == [tab EXCEPT ![fd].reuse = TRUE]

NoCall == [op |-> "none", h |-> -1, len |-> 0]

----------------------------------------------------------------------------
(* SocketFactory: socketTcp0 and socketUdp0.                               *)

(* The outcome of socketTcp0: <<return value, descriptor table>>.  sockOk, *)
(* fcntlOk and optOk say whether socket, fcntl and setsockopt succeed.     *)
socketTcp0(tab, blocking, sockOk, fcntlOk, optOk) ==
    LET fd == os_socket(tab, sockOk)
        t0 == IF fd >= 0 THEN os_open(tab, fd, "tcp") ELSE tab
    IN  IF fd > 0 /\ ~blocking
        THEN IF ~fcntlOk
             THEN <<-1, os_close(t0, fd)>>
             ELSE IF ~optOk
                  THEN <<-1, os_close(os_set_nonblock(t0, fd), fd)>>
                  ELSE <<fd, os_set_reuse(os_set_nonblock(t0, fd), fd)>>
        ELSE <<fd, t0>>

socketUdp0(tab, sockOk, fcntlOk) ==
    LET fd == os_socket(tab, sockOk)
        t0 == IF fd >= 0 THEN os_open(tab, fd, "udp") ELSE tab
    IN  IF fd > 0 /\ ~fcntlOk
        THEN <<-1, os_close(t0, fd)>>
        ELSE IF fd > 0
             THEN <<fd, os_set_nonblock(t0, fd)>>
             ELSE <<fd, t0>>

Net_socketTcp0 ==
    \E blocking \in BOOLEAN, sockOk \in BOOLEAN, fcntlOk \in BOOLEAN, optOk \in BOOLEAN :
        LET r == socketTcp0(socks, blocking, sockOk, fcntlOk, optOk)
        IN  /\ socks' = r[2]
            /\ owned' = IF r[1] >= 0 THEN owned \cup {r[1]} ELSE owned
            /\ last' = [op |-> "socketTcp0", blocking |-> blocking, ret |-> r[1]]
            /\ UNCHANGED <<heap, live, stale, ub>>

Net_socketUdp0 ==
    \E sockOk \in BOOLEAN, fcntlOk \in BOOLEAN :
        LET r == socketUdp0(socks, sockOk, fcntlOk)
        IN  /\ socks' = r[2]
            /\ owned' = IF r[1] >= 0 THEN owned \cup {r[1]} ELSE owned
            /\ last' = [op |-> "socketUdp0", blocking |-> FALSE, ret |-> r[1]]
            /\ UNCHANGED <<heap, live, stale, ub>>

(* The caller closes a handle it owns, or the process closes one of its    *)
(* standard descriptors (close is not part of net.c).                      *)
CallerClose ==
    \E fd \in Fds :
        /\ IsOpen(socks, fd)
        /\ fd \in owned \/ socks[fd].kind = "file"
        /\ socks' = os_close(socks, fd)
        /\ owned' = owned \ {fd}
        /\ last' = [op |-> "close", blocking |-> FALSE, ret |-> 0]
        /\ UNCHANGED <<heap, live, stale, ub>>

EmptyHeap == [a \in 1..MaxAddr |-> FreeBlock]

InitFactory ==
    /\ socks = [f \in Fds |-> IF f <= 2 THEN StdFile ELSE NoSock]
    /\ owned = {}
    /\ heap = EmptyHeap
    /\ live = {}
    /\ stale = {}
    /\ ub = "none"
    /\ last = NoCall

NextFactory == Net_socketTcp0 \/ Net_socketUdp0 \/ CallerClose

SpecFactory == InitFactory /\ [][NextFactory]_vars

(* No descriptor is open without the caller holding it.                    *)
NoLeak == \A f \in Fds : IsSocket(socks, f) => f \in owned

(* C4: createTcp(blocking=false) and createUdp() return -1 with nothing    *)
(* left open, or a handle that is non-blocking (and, for TCP, has          *)
(* address-reuse set); no descriptor is leaked.                            *)
C4_FullyConfiguredOrFailed ==
    (last.op \in {"socketTcp0", "socketUdp0"} /\ ~last.blocking) =>
        /\ NoLeak
        /\ last.ret = -1 \/ last.ret \in Fds
        /\ last.ret \in Fds =>
              /\ IsSocket(socks, last.ret)
              /\ socks[last.ret].nonblock
              /\ socks[last.ret].kind = "tcp" => socks[last.ret].reuse

----------------------------------------------------------------------------
(* 32-bit and 16-bit values.  A jint is a TLA+ integer in -2^31..2^31-1; a *)
(* uint32_t register is held as its four bytes, most significant first (a  *)
(* uint16_t as two), so that no intermediate value leaves 32 bits.         *)

Reverse(w) == [i \in 1..Len(w) |-> w[Len(w) + 1 - i]]

(* (uint32_t) v for a jint v, and (uint16_t) v.                            *)
U32(v) ==
    <<(v \div 16777216) % 256, (v \div 65536) % 256, (v \div 256) % 256, v % 256>>

U16(v) == <<(v \div 256) % 256, v % 256>>

(* (jint) of a uint32_t: the same 32 bits read as two's complement; and of *)
(* a uint16_t, which it always holds.                                      *)
JintOfU32(w) ==
    (IF w[1] >= 128 THEN w[1] - 256 ELSE w[1]) * 16777216
        + w[2] * 65536 + w[3] * 256 + w[4]

JintOfU16(w) == w[1] * 256 + w[2]

(* htonl, htons, ntohl, ntohs on the little-endian hosts the library is    *)
(* built for: a byte swap of the register.  Storing a register puts its    *)
(* least significant byte first.                                           *)
htonl(w) == Reverse(w)
htons(w) == Reverse(w)
ntohl(w) == Reverse(w)
ntohs(w) == Reverse(w)
store(w) == Reverse(w)
load(m) == Reverse(m)

(* The addresses and ports the calls are tried with.                       *)
Addresses == {0, 2130706433, 16909060, -1, -2}
Ports == {0, 80, 9009, 65535}

----------------------------------------------------------------------------
(* AddressBuilder: sockaddr and freeSockAddr over the C allocator.         *)

HeapAddrs == 1..MaxAddr

Running == ub \notin {"segv", "abort"}

(* calloc(1, sizeof(struct sockaddr_in)): NULL, or any free block.         *)
os_calloc(h) == {0} \cup {a \in HeapAddrs : ~h[a].used}

(* What the three stores of sockaddr leave in the block.                   *)
sockaddr_in(address, port) ==
    [used |-> TRUE, sin_family |-> AF_INET,
     sin_addr |-> store(htonl(U32(address))),
     sin_port |-> store(htons(U16(port)))]

sockaddr_call(addressArgs, portArgs) ==
    \E address \in addressArgs, port \in portArgs, addr \in os_calloc(heap) :
        /\ Running
        /\ IF addr = 0
           THEN \* addr->sin_family = ... stores through NULL
                \E outcome \in {"segv", "null_write"} :
                    /\ ub' = outcome
                    /\ last' = [op |-> "sockaddr", calloc |-> addr, nullWrite |-> TRUE,
                                returned |-> outcome # "segv", ret |-> 0]
                    /\ UNCHANGED <<heap, live>>
           ELSE /\ heap' = [heap EXCEPT ![addr] = sockaddr_in(address, port)]
                /\ live' = live \cup {addr}
                /\ last' = [op |-> "sockaddr", calloc |-> addr, nullWrite |-> FALSE,
                            returned |-> TRUE, ret |-> addr]
                /\ UNCHANGED ub
        /\ UNCHANGED <<socks, owned, stale>>

Net_sockaddr == sockaddr_call({2130706433, -2}, {9009})

(* free(address) for address # 0.  A block that is allocated is released,  *)
(* whoever it now belongs to; releasing a block that is already free is    *)
(* undefined: the allocator aborts the process or its free list is         *)
(* damaged.                                                                *)
Net_freeSockAddr ==
    \E via \in {"null", "live", "stale"} :
      \E address \in (IF via = "null" THEN {0} ELSE IF via = "live" THEN live ELSE stale) :
        /\ Running
        /\ IF address = 0
           THEN /\ last' = [op |-> "freeSockAddr", via |-> via, address |-> address,
                            released |-> {}]
                /\ UNCHANGED <<heap, live, stale, ub>>
           ELSE IF heap[address].used
                THEN /\ heap' = [heap EXCEPT ![address] = FreeBlock]
                     /\ live' = IF via = "live" THEN live \ {address} ELSE live
                     /\ stale' = IF via = "live" THEN stale \cup {address} ELSE stale
                     /\ last' = [op |-> "freeSockAddr", via |-> via, address |-> address,
                                 released |-> {address}]
                     /\ UNCHANGED ub
                ELSE /\ \E outcome \in {"abort", "heap_corrupt"} : ub' = outcome
                     /\ last' = [op |-> "freeSockAddr", via |-> via, address |-> address,
                                 released |-> {}]
                     /\ UNCHANGED <<heap, live, stale>>
        /\ UNCHANGED <<socks, owned>>

InitAddr ==
    /\ socks = [f \in Fds |-> NoSock]
    /\ owned = {}
    /\ heap = EmptyHeap
    /\ live = {}
    /\ stale = {}
    /\ ub = "none"
    /\ last = NoCall

NextAddr == Net_sockaddr \/ Net_freeSockAddr

SpecAddr == InitAddr /\ [][NextAddr]_vars

(* C6: free(NULL) releases nothing; the one free of a built descriptor     *)
(* releases exactly it; a second free of a freed handle releases nothing   *)
(* and harms nothing: the allocator stays sound and every address object   *)
(* the caller holds as live is still allocated.                            *)
C6_FreeIsSafe ==
    /\ ub \notin {"abort", "heap_corrupt"}
    /\ \A a \in live : heap[a].used
    /\ last.op = "freeSockAddr" =>
          /\ last.via = "null" => last.released = {}
          /\ last.via = "live" => last.released = {last.address}
          /\ last.via = "stale" => last.released = {}

(* C7: when calloc fails, sockaddr returns the absent handle and has       *)
(* stored nothing through the failed allocation.                           *)
C7_AllocationFailureReported ==
    (last.op = "sockaddr" /\ last.calloc = 0) =>
        /\ last.returned
        /\ last.ret = 0
        /\ ~last.nullWrite

----------------------------------------------------------------------------
(* PeerInfo: getPeerIP and getPeerPort, with connect giving a socket its   *)
(* peer.                                                                   *)

AF_UNIX == 1

(* connect(2): <<return value, descriptor table>>.  A datagram socket      *)
(* takes the address as its peer; a stream socket finds nobody listening.  *)
os_connect(tab, fd, sa) ==
    IF IsSocket(tab, fd) /\ tab[fd].kind = "udp"
    THEN <<0, [tab EXCEPT ![fd].pn = sa, ![fd].st = "connected"]>>
    ELSE <<-1, tab>>

(* getpeername(2): <<return value, the sockaddr it fills in>>.             *)
os_getpeername(tab, fd) ==
    IF fd \in Fds /\ tab[fd].kind \in {"tcp", "udp", "unix"} /\ tab[fd].pn.used
    THEN <<0, tab[fd].pn>>
    ELSE <<-1, FreeBlock>>

getPeerIP(tab, fd) ==
    LET r == os_getpeername(tab, fd)
    IN  IF r[1] = 0
        THEN IF r[2].sin_family = AF_INET
             THEN JintOfU32(ntohl(load(r[2].sin_addr)))
             ELSE -2
        ELSE -1

getPeerPort(tab, fd) ==
    LET r == os_getpeername(tab, fd)
    IN  IF r[1] = 0
        THEN IF r[2].sin_family = AF_INET
             THEN JintOfU16(ntohs(load(r[2].sin_port)))
             ELSE -2
        ELSE -1

(* The handles the calls are tried with: every descriptor, and -1.         *)
Handles == Fds \cup {-1}

PeerCall(op, fd, ret) ==
    [op |-> op, h |-> fd, len |-> 0, ret |-> ret, void |-> FALSE,
     valid |-> IsOpen(socks, fd),
     rc |-> os_getpeername(socks, fd)[1], pn |-> os_getpeername(socks, fd)[2]]

Net_connect(fd, sockAddr) ==
    /\ Running
    /\ heap[sockAddr].used
    /\ socks' = os_connect(socks, fd, heap[sockAddr])[2]
    /\ last' = [PeerCall("connect", fd, os_connect(socks, fd, heap[sockAddr])[1])
                  EXCEPT !.rc = 0, !.pn = FreeBlock]
    /\ UNCHANGED <<owned, heap, live, stale, ub>>

Net_getPeerIP(fd) ==
    /\ Running
    /\ last' = PeerCall("getPeerIP", fd, getPeerIP(socks, fd))
    /\ UNCHANGED <<socks, owned, heap, live, stale, ub>>

Net_getPeerPort(fd) ==
    /\ Running
    /\ last' = PeerCall("getPeerPort", fd, getPeerPort(socks, fd))
    /\ UNCHANGED <<socks, owned, heap, live, stale, ub>>

Peer_connect == \E fd \in Handles, sockAddr \in live : Net_connect(fd, sockAddr)
Peer_getPeerIP == \E fd \in Handles : Net_getPeerIP(fd)
Peer_getPeerPort == \E fd \in Handles : Net_getPeerPort(fd)

(* The caller of the peer queries builds one address at a time and frees   *)
(* it once.                                                                *)
BuildPeerAddress ==
    /\ live = {}
    /\ sockaddr_call(Addresses, Ports)
    /\ last'.calloc # 0

FreePeerAddress ==
    /\ Net_freeSockAddr
    /\ last'.via = "live"

(* Descriptor 0 is a connected local-domain socket the process was started *)
(* with; 3 is a datagram socket and 4 a stream socket of this layer, both  *)
(* never connected.                                                        *)
InitPeer ==
    /\ socks = [f \in Fds |->
                  IF f = 0 THEN [NoSock EXCEPT !.kind = "unix", !.st = "connected",
                                               !.pn = [FreeBlock EXCEPT !.used = TRUE,
                                                                        !.sin_family = AF_UNIX]]
                  ELSE IF f = 3 THEN [NewSock("udp") EXCEPT !.nonblock = TRUE]
                  ELSE IF f = 4 THEN NewSock("tcp")
                  ELSE NoSock]
    /\ owned = {3, 4}
    /\ heap = EmptyHeap
    /\ live = {}
    /\ stale = {}
    /\ ub = "none"
    /\ last = NoCall

NextPeer ==
    BuildPeerAddress \/ FreePeerAddress \/ Peer_connect \/ Peer_getPeerIP \/ Peer_getPeerPort

SpecPeer == InitPeer /\ [][NextPeer]_vars

(* C9: getPeerIP and getPeerPort return -1 when the lookup fails, -2 when  *)
(* the peer is not IPv4, and otherwise the peer's address / port in host   *)
(* order, which is never -1 or -2.                                         *)
C9_PeerOutcomesDistinct ==
    last.op \in {"getPeerIP", "getPeerPort"} =>
        /\ last.rc # 0 => last.ret = -1
        /\ (last.rc = 0 /\ last.pn.sin_family # AF_INET) => last.ret = -2
        /\ (last.rc = 0 /\ last.pn.sin_family = AF_INET) =>
              /\ last.ret \notin {-1, -2}
              /\ last.op = "getPeerIP" => U32(last.ret) = last.pn.sin_addr
              /\ last.op = "getPeerPort" => U16(last.ret) = last.pn.sin_port

----------------------------------------------------------------------------
(* IOOps: send, recv, peek and isDead over a connected stream pair.        *)
(*                                                                         *)
(* The operating system's side.  A system call's outcome is a record: n is *)
(* the call's return value, errno the error when n = -1, data the bytes    *)
(* moved and tab the descriptor table afterwards.  A call yields a set of  *)
(* outcomes; a blocking call that cannot complete yields none (it does not *)
(* return; signals are left out).  Bytes sent are queued at the peer at    *)
(* once.                                                                   *)

Outcome(n, errno, data, tab) == [n |-> n, errno |-> errno, data |-> data, tab |-> tab]

Failed(errno, tab) == Outcome(-1, errno, <<>>, tab)

HasPeer(tab, fd) == IsSocket(tab, fd) /\ IsSocket(tab, tab[fd].peer)

(* The peer has sent its FIN, or the connection is gone.                   *)
AtEof(tab, fd) ==
    \/ tab[fd].rdshut
    \/ tab[fd].st = "reset"
    \/ HasPeer(tab, fd) /\ tab[tab[fd].peer].wrshut

(* recv(fd, buf, len, flags); peek is flags = MSG_PEEK.                    *)
os_recv(tab, fd, len, peek) ==
    IF ~IsOpen(tab, fd) THEN {Failed("EBADF", tab)}
    ELSE IF ~IsSocket(tab, fd) THEN {Failed("ENOTSOCK", tab)}
    ELSE IF tab[fd].kind = "tcp" /\ tab[fd].st \notin {"connected", "reset"}
    THEN {Failed("ENOTCONN", tab)}
    ELSE IF tab[fd].rx # <<>>
    THEN LET n == Min(len, Len(tab[fd].rx))
         IN  {Outcome(n, "", SubSeq(tab[fd].rx, 1, n),
                      IF peek THEN tab
                      ELSE [tab EXCEPT ![fd].rx = SubSeq(@, n + 1, Len(@))])}
    ELSE IF tab[fd].err # "" THEN {Failed(tab[fd].err, [tab EXCEPT ![fd].err = ""])}
    ELSE IF AtEof(tab, fd) THEN {Outcome(0, "", <<>>, tab)}
    ELSE IF tab[fd].nonblock THEN {Failed("EWOULDBLOCK", tab)}
    ELSE {}

(* send(fd, buf, len, 0) with buf holding payload.  A peer that is not a   *)
(* descriptor of this process is a remote one: the network takes the       *)
(* bytes.                                                                  *)
os_send(tab, fd, payload) ==
    IF ~IsOpen(tab, fd) THEN {Failed("EBADF", tab)}
    ELSE IF ~IsSocket(tab, fd) THEN {Failed("ENOTSOCK", tab)}
    ELSE IF tab[fd].err # "" THEN {Failed(tab[fd].err, [tab EXCEPT ![fd].err = ""])}
    ELSE IF tab[fd].st = "reset" \/ tab[fd].wrshut THEN {Failed("EPIPE", tab)}
    ELSE IF tab[fd].st # "connected" THEN {Failed("ENOTCONN", tab)}
    ELSE IF payload = <<>> THEN {Outcome(0, "", <<>>, tab)}
    ELSE IF ~HasPeer(tab, fd) THEN {Outcome(Len(payload), "", payload, tab)}
    ELSE LET p == tab[fd].peer
             space == BufCap - Len(tab[p].rx)
             n == Min(Len(payload), space)
         IN  IF ~tab[fd].nonblock /\ n < Len(payload) THEN {}
             ELSE IF space = 0 THEN {Failed("EWOULDBLOCK", tab)}
             ELSE {Outcome(n, "", SubSeq(payload, 1, n),
                           [tab EXCEPT ![p].rx = @ \o SubSeq(payload, 1, n)])}

(* shutdown(fd, how): SHUT_RD = 0, SHUT_WR = 1, SHUT_RDWR = 2.             *)
os_shutdown(tab, fd, how) ==
    IF ~IsOpen(tab, fd) THEN Failed("EBADF", tab)
    ELSE IF ~IsSocket(tab, fd) THEN Failed("ENOTSOCK", tab)
    ELSE IF tab[fd].st \notin {"connected", "reset"} THEN Failed("ENOTCONN", tab)
    ELSE IF how \notin {0, 1, 2} THEN Failed("EINVAL", tab)
    ELSE Outcome(0, "", <<>>,
                 [tab EXCEPT ![fd].rdshut = @ \/ how \in {0, 2},
                             ![fd].wrshut = @ \/ how \in {1, 2}])

(* fcntl(fd, F_GETFL) then fcntl(fd, F_SETFL, flags | O_NONBLOCK).         *)
os_fcntl_nonblock(tab, fd) ==
    IF ~IsOpen(tab, fd) THEN Failed("EBADF", tab)
    ELSE Outcome(0, "", <<>>, os_set_nonblock(tab, fd))

(* What the entry points make of the outcome o of their system call.       *)
(* A send that answers the length it was asked to send, not the count.    *)
send_ret_len(o, len) ==
    IF o.n > -1 THEN len
    ELSE IF o.errno = "EWOULDBLOCK" THEN ERETRY
    ELSE EOTHERDISCONNECT

(* A send that does not look at errno.                                     *)
send_ret_no_errno(o, len) == IF o.n > -1 THEN o.n ELSE EOTHERDISCONNECT

send_ret(o, len) ==
    IF o.n > -1 THEN o.n
    ELSE IF o.errno = "EWOULDBLOCK" THEN ERETRY
    ELSE EOTHERDISCONNECT

(* A recv that tests the count as send does.                               *)
recv_ret_as_send(o) ==
    IF o.n > -1 THEN o.n
    ELSE IF o.errno = "EWOULDBLOCK" THEN ERETRY
    ELSE EOTHERDISCONNECT

recv_ret(o) ==
    IF o.n > 0 THEN o.n
    ELSE IF o.n = 0 THEN EOTHERDISCONNECT
    ELSE IF o.errno = "EWOULDBLOCK" THEN ERETRY
    ELSE EOTHERDISCONNECT

(* A peek that leaves MSG_PEEK out.                                        *)
peek_flags_none == FALSE

(* Whether peek's recv carries MSG_PEEK.                                   *)
peek_flags == TRUE

peek_ret(o) ==
    IF o.n > 0 THEN o.n
    ELSE IF o.n = 0 THEN EOTHERDISCONNECT
    ELSE IF o.errno = "EWOULDBLOCK" THEN ERETRY
    ELSE EOTHERDISCONNECT

isDead_ret(o) == o.n < 1

(* The connection of fd is open in both directions and no error is         *)
(* pending on either end.                                                  *)
FullyOpen(tab, fd) ==
    /\ HasPeer(tab, fd)
    /\ \A f \in {fd, tab[fd].peer} :
          /\ tab[f].st = "connected"
          /\ tab[f].err = ""
          /\ ~tab[f].wrshut
          /\ ~tab[f].rdshut

(* The peer of fd has shut down its sending side.                          *)
PeerShutDown(tab, fd) == HasPeer(tab, fd) /\ tab[tab[fd].peer].wrshut

(* The two ends of the connection.  Payload flows from B to C in a run;    *)
(* the ends are alike in every field the calls read, so either can be B.   *)
IOHandles == {3, 4}
SendHandles == {3}

(* What a call has to be compared with, when it follows a call the         *)
(* properties relate it to: "peek" when it is a recv or peek right after a *)
(* peek of the same handle and length, "send" when it is a recv of at      *)
(* least N bytes right after the peer's send of N >= 1 bytes into an empty *)
(* queue of an open connection.                                            *)
Follows(op, fd, len) ==
    IF last.op = "peek" /\ op \in {"recv", "peek"} /\ last.h = fd /\ last.len = len
    THEN "peek"
    ELSE IF /\ last.op = "send" /\ op = "recv"
            /\ HasPeer(socks, fd) /\ last.h = socks[fd].peer
            /\ last.len >= 1 /\ len >= last.len
            /\ last.queued = 0 /\ last.open
         THEN "send"
         ELSE ""

(* The record of a call: its arguments, the system call's outcome o, the   *)
(* value returned, what held when it was made, and the call it follows.    *)
IOCall(op, fd, len, ret, o) ==
    [op |-> op, h |-> fd, len |-> len, ret |-> ret, void |-> FALSE,
     valid |-> IsOpen(socks, fd), data |-> o.data,
     n |-> o.n, errno |-> o.errno,
     nonblock |-> IsSocket(socks, fd) /\ socks[fd].nonblock,
     pending |-> IF IsSocket(socks, fd) THEN Len(socks[fd].rx) ELSE 0,
     queued |-> IF HasPeer(socks, fd) THEN Len(socks[socks[fd].peer].rx) ELSE 0,
     open |-> FullyOpen(socks, fd),
     peerShut |-> PeerShutDown(socks, fd),
     kept |-> IsSocket(socks, fd) => o.tab[fd].rx = socks[fd].rx,
     after |-> Follows(op, fd, len),
     was |-> IF Follows(op, fd, len) = ""
             THEN [len |-> 0, ret |-> 0, data |-> <<>>]
             ELSE [len |-> last.len, ret |-> last.ret, data |-> last.data]]

Net_send(fd, payload) ==
    \E o \in os_send(socks, fd, payload) :
        /\ socks' = o.tab
        /\ last' = IOCall("send", fd, Len(payload), send_ret(o, Len(payload)), o)
        /\ UNCHANGED <<owned, heap, live, stale, ub>>

Net_recv(fd, len) ==
    \E o \in os_recv(socks, fd, len, FALSE) :
        /\ socks' = o.tab
        /\ last' = IOCall("recv", fd, len, recv_ret(o), o)
        /\ UNCHANGED <<owned, heap, live, stale, ub>>

Net_peek(fd, len) ==
    \E o \in os_recv(socks, fd, len, peek_flags) :
        /\ socks' = o.tab
        /\ last' = IOCall("peek", fd, len, peek_ret(o), o)
        /\ UNCHANGED <<owned, heap, live, stale, ub>>

Net_isDead(fd) ==
    \E o \in os_recv(socks, fd, 1, FALSE) :
        /\ socks' = o.tab
        /\ last' = IOCall("isDead", fd, 1, IF isDead_ret(o) THEN 1 ELSE 0, o)
        /\ UNCHANGED <<owned, heap, live, stale, ub>>

Net_shutdown(fd, how) ==
    LET o == os_shutdown(socks, fd, how)
    IN  /\ socks' = o.tab
        /\ last' = IOCall("shutdown", fd, how, o.n, o)
        /\ UNCHANGED <<owned, heap, live, stale, ub>>

(* The calls as the owner of the pair makes them.                          *)
IO_send == \E fd \in SendHandles, payload \in Payloads : Net_send(fd, payload)
IO_recv == \E fd \in IOHandles, len \in Lens : Net_recv(fd, len)
IO_peek == \E fd \in IOHandles, len \in Lens : Net_peek(fd, len)
IO_isDead == \E fd \in IOHandles : Net_isDead(fd)
IO_shutdown == \E fd \in IOHandles, how \in {0, 1, 2} : Net_shutdown(fd, how)

(* The network resets the connection of fd while it is open: the error is  *)
(* pending on fd.                                                          *)
NetworkReset ==
    \E fd \in Fds :
        /\ FullyOpen(socks, fd)
        /\ socks' = [socks EXCEPT ![fd].st = "reset", ![fd].err = "ECONNRESET"]
        /\ last' = [NoCall EXCEPT !.op = "reset"]
        /\ UNCHANGED <<owned, heap, live, stale, ub>>

(* B = 3 has connected to a listener and C = 4 was accepted from it; each  *)
(* end is blocking or not.                                                 *)
Connected(peer, nb) ==
    [NewSock("tcp") EXCEPT !.st = "connected", !.peer = peer, !.nonblock = nb]

InitIO ==
    /\ \E nbB \in BOOLEAN, nbC \in BOOLEAN :
          socks = [f \in Fds |->
                     IF f = 3 THEN Connected(4, nbB)
                     ELSE IF f = 4 THEN Connected(3, nbC)
                     ELSE IF f <= 2 THEN StdFile
                     ELSE NoSock]
    /\ owned = {3, 4}
    /\ heap = EmptyHeap
    /\ live = {}
    /\ stale = {}
    /\ ub = "none"
    /\ last = NoCall

NextIO ==
    \/ IO_send
    \/ IO_recv
    \/ IO_peek
    \/ IO_isDead
    \/ IO_shutdown
    \/ NetworkReset

SpecIO == InitIO /\ [][NextIO]_vars

WouldBlock(call) == call.n < 0 /\ call.errno = "EWOULDBLOCK"

OtherError(call) == call.n < 0 /\ call.errno # "EWOULDBLOCK"

(* C1: recv returns n for n > 0 bytes, Disconnected for 0 bytes, Retry for *)
(* would-block and Disconnected for any other error; the three results are *)
(* distinct, and on a non-blocking socket with nothing pending and the     *)
(* connection open it returns Retry.                                       *)
C1_RecvClassified ==
    last.op = "recv" =>
        /\ last.n > 0 => last.ret = last.n
        /\ last.n = 0 => last.ret = EOTHERDISCONNECT /\ last.ret # ERETRY
        /\ WouldBlock(last) => last.ret = ERETRY /\ last.ret # EOTHERDISCONNECT
        /\ OtherError(last) => last.ret = EOTHERDISCONNECT
        /\ last.ret > 0 => last.n > 0
        /\ (last.nonblock /\ last.pending = 0 /\ last.open) =>
              last.ret = ERETRY /\ last.ret # EOTHERDISCONNECT

(* The peer has shut down, nothing is pending, recv reads 0 bytes and      *)
(* reports Disconnected.                                                   *)
C1_Witness ==
    /\ last.op = "recv"
    /\ last.peerShut
    /\ last.pending = 0
    /\ last.n = 0
    /\ last.ret = EOTHERDISCONNECT

(* C2 as stated: send returns a count n > 0, Retry on would-block or       *)
(* Disconnected on any other failure, and nothing else.                    *)
C2_SendThreeResults ==
    last.op = "send" =>
        /\ last.n >= 0 => last.ret = last.n /\ last.ret > 0
        /\ WouldBlock(last) => last.ret = ERETRY /\ last.ret # EOTHERDISCONNECT
        /\ OtherError(last) => last.ret = EOTHERDISCONNECT
        /\ last.ret > 0 \/ last.ret \in {ERETRY, EOTHERDISCONNECT}

(* C2, amended: send returns the count n >= 0 the system accepted (0 only  *)
(* for a send of no bytes), Retry on would-block or Disconnected on any    *)
(* other failure, and nothing else.                                        *)
C2_SendClassified ==
    last.op = "send" =>
        /\ last.n >= 0 => last.ret = last.n
        /\ last.ret = 0 => last.len = 0
        /\ WouldBlock(last) => last.ret = ERETRY /\ last.ret # EOTHERDISCONNECT
        /\ OtherError(last) => last.ret = EOTHERDISCONNECT
        /\ last.ret >= 0 \/ last.ret \in {ERETRY, EOTHERDISCONNECT}
        /\ last.ret >= 0 => last.n >= 0

(* A send on a non-blocking socket whose peer's queue is full reports      *)
(* Retry.                                                                  *)
C2_Witness ==
    /\ last.op = "send"
    /\ last.nonblock
    /\ last.queued = BufCap
    /\ last.errno = "EWOULDBLOCK"
    /\ last.ret = ERETRY

(* C3: peek classifies the outcome of its read as recv does and leaves the *)
(* pending data as it was; a recv (or peek) of the same handle and length  *)
(* right after a peek returns the same value and the same bytes.           *)
C3_PeekKeepsData ==
    /\ last.op = "peek" =>
          /\ last.ret = recv_ret([n |-> last.n, errno |-> last.errno])
          /\ last.kept
    /\ (last.op \in {"recv", "peek"} /\ last.after = "peek") =>
          /\ last.ret = last.was.ret
          /\ last.data = last.was.data

(* A recv right after a peek of the same handle and length, both reading   *)
(* bytes.                                                                  *)
C3_Witness ==
    /\ last.op = "recv"
    /\ last.after = "peek"
    /\ last.was.ret > 0
    /\ last.ret = last.was.ret
    /\ last.data # <<>>

ConnectionErrors == {"ECONNRESET", "EPIPE", "ENOTCONN", "EBADF", "ENOTSOCK"}

(* C5: with nothing pending, isDead is false while the connection is open  *)
(* and true once the peer has shut down; it is true only when the probe    *)
(* read 0 bytes or met a connection error, and false when it read a byte.  *)
C5_IsDeadOnlyOnClosure ==
    last.op = "isDead" =>
        /\ (last.pending = 0 /\ last.open) => last.ret = 0
        /\ (last.pending = 0 /\ last.peerShut) => last.ret = 1
        /\ last.ret = 1 => last.n = 0 \/ (last.n < 0 /\ last.errno \in ConnectionErrors)
        /\ last.n = 1 => last.ret = 0

----------------------------------------------------------------------------
(* ConnectionOps, OptionsManager and MulticastOps: the remaining entry     *)
(* points, each a direct call of one system call.                          *)

BadFd(tab, fd) ==
    IF ~IsOpen(tab, fd) THEN "EBADF"
    ELSE IF ~IsSocket(tab, fd) THEN "ENOTSOCK"
    ELSE ""

(* bind(2).                                                                *)
os_bind(tab, fd, sa) ==
    IF BadFd(tab, fd) # "" THEN Failed(BadFd(tab, fd), tab)
    ELSE IF tab[fd].st # "created" THEN Failed("EINVAL", tab)
    ELSE Outcome(0, "", <<>>, [tab EXCEPT ![fd].st = "bound"])

(* listen(2).                                                              *)
os_listen(tab, fd, backlog) ==
    IF BadFd(tab, fd) # "" THEN Failed(BadFd(tab, fd), tab)
    ELSE IF tab[fd].kind # "tcp" THEN Failed("EOPNOTSUPP", tab)
    ELSE IF tab[fd].st \notin {"created", "bound", "listening"} THEN Failed("EINVAL", tab)
    ELSE Outcome(0, "", <<>>, [tab EXCEPT ![fd].st = "listening"])

(* accept(2): the new descriptor is the lowest free one and is connected   *)
(* to a remote peer; whether it inherits O_NONBLOCK depends on the system. *)
os_accept(tab, fd) ==
    IF BadFd(tab, fd) # "" THEN {Failed(BadFd(tab, fd), tab)}
    ELSE IF tab[fd].st # "listening" THEN {Failed("EINVAL", tab)}
    ELSE IF tab[fd].backlog = 0
    THEN IF tab[fd].nonblock THEN {Failed("EWOULDBLOCK", tab)} ELSE {}
    ELSE IF os_socket(tab, TRUE) = -1 THEN {Failed("EMFILE", tab)}
    ELSE LET new == os_socket(tab, TRUE)
         IN  {Outcome(new, "", <<>>,
                      [tab EXCEPT ![fd].backlog = @ - 1,
                                  ![new] = [NewSock("tcp") EXCEPT !.st = "connected",
                                                                  !.nonblock = nb]])
                 : nb \in {FALSE, tab[fd].nonblock}}

(* sendto(2) of a datagram; on a stream socket the address is ignored.     *)
os_sendto(tab, fd, payload, sa) ==
    IF BadFd(tab, fd) # "" THEN {Failed(BadFd(tab, fd), tab)}
    ELSE IF tab[fd].kind = "udp" THEN {Outcome(Len(payload), "", payload, tab)}
    ELSE os_send(tab, fd, payload)

IsMulticast(address) == U32(address)[1] \in 224..239

(* setsockopt(2).  The options no call of this layer reads back leave      *)
(* nothing in the model.                                                   *)
os_setsockopt(tab, fd, opt, value) ==
    IF BadFd(tab, fd) # "" THEN Failed(BadFd(tab, fd), tab)
    ELSE IF opt = "TCP_NODELAY" /\ tab[fd].kind # "tcp" THEN Failed("EOPNOTSUPP", tab)
    ELSE IF opt \in {"IP_MULTICAST_TTL", "IP_MULTICAST_IF", "IP_MULTICAST_LOOP",
                     "IP_ADD_MEMBERSHIP"} /\ tab[fd].kind # "udp"
    THEN Failed("EINVAL", tab)
    ELSE IF opt = "IP_ADD_MEMBERSHIP" /\ ~IsMulticast(value) THEN Failed("EINVAL", tab)
    ELSE Outcome(0, "", <<>>,
                 IF opt = "SO_SNDBUF" THEN [tab EXCEPT ![fd].sndbuf = value]
                 ELSE IF opt = "SO_RCVBUF" THEN [tab EXCEPT ![fd].rcvbuf = value]
                 ELSE IF opt = "TCP_NODELAY" THEN [tab EXCEPT ![fd].nodelay = value]
                 ELSE IF opt = "SO_REUSEADDR" THEN os_set_reuse(tab, fd)
                 ELSE tab)

(* getsockopt(2): <<return value, option value>>.                          *)
os_getsockopt(tab, fd, opt) ==
    IF BadFd(tab, fd) # "" THEN <<-1, 0>>
    ELSE IF opt = "TCP_NODELAY" /\ tab[fd].kind # "tcp" THEN <<-1, 0>>
    ELSE <<0, IF opt = "SO_SNDBUF" THEN tab[fd].sndbuf
              ELSE IF opt = "SO_RCVBUF" THEN tab[fd].rcvbuf
              ELSE tab[fd].nodelay>>

set_int_sockopt(tab, fd, opt, value) == os_setsockopt(tab, fd, opt, value)

get_int_sockopt(tab, fd, opt) ==
    LET r == os_getsockopt(tab, fd, opt)
    IN  IF r[1] = 0 THEN r[2] ELSE -1

OpsCall(op, fd, arg, ret) ==
    [op |-> op, h |-> fd, len |-> arg, ret |-> ret, void |-> FALSE,
     valid |-> IsOpen(socks, fd)]

(* An entry point that makes the system call with outcome o and returns    *)
(* ret.                                                                    *)
Returns(op, fd, arg, ret, o) ==
    /\ socks' = o.tab
    /\ last' = OpsCall(op, fd, arg, ret)
    /\ UNCHANGED <<owned, heap, live, stale, ub>>

Net_bindTcp(fd, address, port) ==
    LET addr == [sockaddr_in(address, port) EXCEPT !.used = TRUE]
        o == os_bind(socks, fd, addr)
    IN  Returns("bindTcp", fd, port, IF o.n = 0 THEN 1 ELSE 0, o)

Net_bindUdp(fd, ipv4Address, port) ==
    LET addr == [sockaddr_in(ipv4Address, port) EXCEPT !.used = TRUE]
        o == os_bind(socks, fd, addr)
    IN  Returns("bindUdp", fd, port, IF o.n = 0 THEN 1 ELSE 0, o)

Net_join(fd, bindAddress, groupAddress) ==
    LET o == os_setsockopt(socks, fd, "IP_ADD_MEMBERSHIP", groupAddress)
    IN  Returns("join", fd, groupAddress, IF o.n < 0 THEN 0 ELSE 1, o)

Net_accept0(fd) ==
    \E o \in os_accept(socks, fd) :
        /\ socks' = o.tab
        /\ owned' = IF o.n >= 0 THEN owned \cup {o.n} ELSE owned
        /\ last' = OpsCall("accept0", fd, 0, o.n)
        /\ UNCHANGED <<heap, live, stale, ub>>

(* listen is declared void: the system call's result goes nowhere.         *)
Net_listen(fd, backlog) ==
    LET o == os_listen(socks, fd, backlog)
    IN  /\ socks' = o.tab
        /\ last' = [OpsCall("listen", fd, backlog, 0) EXCEPT !.void = TRUE]
        /\ UNCHANGED <<owned, heap, live, stale, ub>>

Net_sendTo(fd, payload, sockaddr) ==
    \E o \in os_sendto(socks, fd, payload, heap[sockaddr]) :
        /\ heap[sockaddr].used
        /\ Returns("sendTo", fd, Len(payload), o.n, o)

Net_configureNonBlocking(fd) ==
    LET o == os_fcntl_nonblock(socks, fd)
    IN  Returns("configureNonBlocking", fd, 0, IF o.n < 0 THEN o.n ELSE 0, o)

Net_configureLinger(fd, seconds) ==
    LET o == os_setsockopt(socks, fd, "SO_LINGER", seconds)
    IN  Returns("configureLinger", fd, seconds, o.n, o)

Net_setSndBuf(fd, size) ==
    LET o == set_int_sockopt(socks, fd, "SO_SNDBUF", size)
    IN  Returns("setSndBuf", fd, size, o.n, o)

Net_setRcvBuf(fd, size) ==
    LET o == set_int_sockopt(socks, fd, "SO_RCVBUF", size)
    IN  Returns("setRcvBuf", fd, size, o.n, o)

Net_setTcpNoDelay(fd, noDelay) ==
    LET o == set_int_sockopt(socks, fd, "TCP_NODELAY", IF noDelay THEN 1 ELSE 0)
    IN  Returns("setTcpNoDelay", fd, IF noDelay THEN 1 ELSE 0, o.n, o)

Net_setReuseAddress(fd) ==
    LET o == os_setsockopt(socks, fd, "SO_REUSEADDR", 1)
    IN  Returns("setReuseAddress", fd, 1, o.n, o)

Net_setReusePort(fd) ==
    LET o == os_setsockopt(socks, fd, "SO_REUSEPORT", 1)
    IN  Returns("setReusePort", fd, 1, o.n, o)

Net_setMulticastTtl(fd, ttl) ==
    LET o == os_setsockopt(socks, fd, "IP_MULTICAST_TTL", ttl % 256)
    IN  Returns("setMulticastTtl", fd, ttl, IF o.n = 0 THEN o.n ELSE -1, o)

Net_setMulticastInterface(fd, ipv4address) ==
    LET o == os_setsockopt(socks, fd, "IP_MULTICAST_IF", ipv4address)
    IN  Returns("setMulticastInterface", fd, ipv4address, o.n, o)

Net_setMulticastLoop(fd, loop) ==
    LET o == os_setsockopt(socks, fd, "IP_MULTICAST_LOOP", IF loop THEN 1 ELSE 0)
    IN  Returns("setMulticastLoop", fd, IF loop THEN 1 ELSE 0, o.n, o)

(* The three getters; which is the option read.                            *)
Net_getSndBuf(fd) ==
    /\ last' = OpsCall("getSndBuf", fd, 0, get_int_sockopt(socks, fd, "SO_SNDBUF"))
    /\ UNCHANGED <<socks, owned, heap, live, stale, ub>>

Net_getRcvBuf(fd) ==
    /\ last' = OpsCall("getRcvBuf", fd, 0, get_int_sockopt(socks, fd, "SO_RCVBUF"))
    /\ UNCHANGED <<socks, owned, heap, live, stale, ub>>

Net_getTcpNoDelay(fd) ==
    /\ last' = OpsCall("getTcpNoDelay", fd, 0, get_int_sockopt(socks, fd, "TCP_NODELAY"))
    /\ UNCHANGED <<socks, owned, heap, live, stale, ub>>

(* A remote client connects to a listening socket.                         *)
ConnectionArrives ==
    \E fd \in Fds :
        /\ IsSocket(socks, fd)
        /\ socks[fd].st = "listening"
        /\ socks[fd].backlog = 0
        /\ socks' = [socks EXCEPT ![fd].backlog = 1]
        /\ last' = [NoCall EXCEPT !.op = "arrival"]
        /\ UNCHANGED <<owned, heap, live, stale, ub>>

(* The caller closes one of its handles; the value stays in its hands.     *)
HandleClosed ==
    \E fd \in owned :
        /\ IsSocket(socks, fd)
        /\ socks' = os_close(socks, fd)
        /\ last' = [NoCall EXCEPT !.op = "close"]
        /\ UNCHANGED <<owned, heap, live, stale, ub>>

(* The handles the calls are made with: the socket, open or closed, the    *)
(* next descriptor, and the failure value of a creation.                   *)
OpsHandles == {-1, 3, 4}


Ops_bindTcp == \E fd \in OpsHandles : Net_bindTcp(fd, 2130706433, 9009)
Ops_bindUdp == \E fd \in OpsHandles : Net_bindUdp(fd, 2130706433, 9009)
Ops_join == \E fd \in OpsHandles, group \in {-536870911, 2130706433} : Net_join(fd, 0, group)
Ops_accept0 == \E fd \in OpsHandles : Net_accept0(fd)
Ops_listen == \E fd \in OpsHandles : Net_listen(fd, 16)
Ops_connect == \E fd \in OpsHandles, sockAddr \in live : Net_connect(fd, sockAddr)
Ops_shutdown == \E fd \in OpsHandles : Net_shutdown(fd, 1)
Ops_send == \E fd \in OpsHandles, payload \in {<<>>, <<0>>} : Net_send(fd, payload)
Ops_recv == \E fd \in OpsHandles : Net_recv(fd, 1)
Ops_peek == \E fd \in OpsHandles : Net_peek(fd, 1)
Ops_isDead == \E fd \in OpsHandles : Net_isDead(fd)
Ops_sendTo == \E fd \in OpsHandles, sockAddr \in live : Net_sendTo(fd, <<0>>, sockAddr)
Ops_configureNonBlocking == \E fd \in OpsHandles : Net_configureNonBlocking(fd)
Ops_configureLinger == \E fd \in OpsHandles : Net_configureLinger(fd, 0)
Ops_setSndBuf == \E fd \in OpsHandles : Net_setSndBuf(fd, 4)
Ops_getSndBuf == \E fd \in OpsHandles : Net_getSndBuf(fd)
Ops_setRcvBuf == \E fd \in OpsHandles : Net_setRcvBuf(fd, 4)
Ops_getRcvBuf == \E fd \in OpsHandles : Net_getRcvBuf(fd)
Ops_setTcpNoDelay == \E fd \in OpsHandles : Net_setTcpNoDelay(fd, TRUE)
Ops_getTcpNoDelay == \E fd \in OpsHandles : Net_getTcpNoDelay(fd)
Ops_setReuseAddress == \E fd \in OpsHandles : Net_setReuseAddress(fd)
Ops_setReusePort == \E fd \in OpsHandles : Net_setReusePort(fd)
Ops_setMulticastTtl == \E fd \in OpsHandles : Net_setMulticastTtl(fd, 1)
Ops_setMulticastInterface == \E fd \in OpsHandles : Net_setMulticastInterface(fd, 2130706433)
Ops_setMulticastLoop == \E fd \in OpsHandles : Net_setMulticastLoop(fd, TRUE)
Ops_getPeerIP == \E fd \in OpsHandles : Net_getPeerIP(fd)
Ops_getPeerPort == \E fd \in OpsHandles : Net_getPeerPort(fd)

(* 3 is a stream or a datagram socket as the factory returns it; one       *)
(* address has been built.  Higher descriptors are free, so a handle above *)
(* 3 is invalid until accept0 returns it.                                  *)
InitOps ==
    /\ \E kind \in {"tcp", "udp"} :
          socks = [f \in Fds |->
                     IF f <= 2 THEN StdFile
                     ELSE IF f = 3 THEN [NewSock(kind) EXCEPT !.nonblock = TRUE,
                                                             !.reuse = (kind = "tcp")]
                     ELSE NoSock]
    /\ owned = {3}
    /\ heap = [EmptyHeap EXCEPT ![1] = sockaddr_in(2130706433, 9009)]
    /\ live = {1}
    /\ stale = {}
    /\ ub = "none"
    /\ last = NoCall

NextOps ==
    \/ Ops_bindTcp \/ Ops_bindUdp \/ Ops_join \/ Ops_accept0 \/ Ops_listen
    \/ Ops_connect \/ Ops_shutdown \/ Ops_send \/ Ops_recv \/ Ops_peek
    \/ Ops_isDead \/ Ops_sendTo \/ Ops_configureNonBlocking \/ Ops_configureLinger
    \/ Ops_setSndBuf \/ Ops_getSndBuf \/ Ops_setRcvBuf \/ Ops_getRcvBuf
    \/ Ops_setTcpNoDelay \/ Ops_getTcpNoDelay \/ Ops_setReuseAddress
    \/ Ops_setReusePort \/ Ops_setMulticastTtl \/ Ops_setMulticastInterface
    \/ Ops_setMulticastLoop \/ Ops_getPeerIP \/ Ops_getPeerPort
    \/ ConnectionArrives \/ HandleClosed

SpecOps == InitOps /\ [][NextOps]_vars

(* The value by which each call reports failure.                           *)
FailureOf(op) ==
    IF op \in {"bindTcp", "bindUdp", "join"} THEN 0
    ELSE IF op \in {"send", "recv", "peek"} THEN EOTHERDISCONNECT
    ELSE -1

ReportingOps ==
    {"bindTcp", "bindUdp", "listen", "accept0", "connect", "shutdown", "send", "recv",
     "peek", "sendTo", "configureNonBlocking", "configureLinger", "setSndBuf",
     "getSndBuf", "setRcvBuf", "getRcvBuf", "setTcpNoDelay", "getTcpNoDelay",
     "setReuseAddress", "setReusePort", "setMulticastTtl", "setMulticastInterface",
     "setMulticastLoop", "join", "getPeerIP", "getPeerPort"}

(* C8: every one of these calls, made on a handle that is closed or was    *)
(* never valid, returns its failure value.                                 *)
C8_InvalidHandleReported ==
    (last.op \in ReportingOps /\ ~last.valid) =>
        /\ ~last.void
        /\ last.ret = FailureOf(last.op)

====
